---- MODULE Spec2Model ----
(***************************************************************************)
(* senaite.jsonapi: the CRUD orchestration functions of api.py             *)
(* (create_items, update_items, delete_items, create_object) over the      *)
(* content tree of the host portal.                                        *)
(*                                                                         *)
(* The content tree is the state.  Objects are numbered; the UID of an     *)
(* object is its number, the portal having UID 0 as in the host API.       *)
(* A physical path is the list of its "/"-separated segments, so that      *)
(* "/senaite/clients" is <<"", "senaite", "clients">>.  A request record   *)
(* is a TLA+ record with one field per key the code reads; an absent key   *)
(* holds None, NoStr or the empty path.                                    *)
(*                                                                         *)
(* An exception ends a handler: status 400, 401 and 404 are APIErrors      *)
(* raised by fail(), status 500 is any exception of the host that is not   *)
(* an APIError of this package.  Changes made before the exception stay.   *)
(***************************************************************************)
EXTENDS Integers, Sequences, FiniteSets, TLC

VARIABLES parent, ptype, review, title, types, last

vars == <<parent, ptype, review, title, types, last>>

(* ------------------------------ bounds -------------------------------- *)

\* number of objects the create operations may add to the tree
MaxNew == 2
\* number of records in one request body
MaxRecords == 2
\* number of characters of the name of a portal type
MaxNameLen == 2
\* number of portal types in the portal types tool
MaxTypes == 2

(* --------------------------- host content ----------------------------- *)

None == -1
NoStr == "None"
NoPath == << >>

Portal == 0
Setup == 1
Clients == 2
Client1 == 3
LabContacts == 4
Contact1 == 5

InitialObjects == {Portal, Setup, Clients, Client1, LabContacts, Contact1}

\* ids the host gives to the objects, by object number
IdTable == <<"setup", "clients", "client-1", "labcontacts", "contact-1",
             "new-6", "new-7", "new-8", "new-9", "new-10", "new-11">>

PortalId == "senaite"

\* ids of which the portal id is a string prefix
PortalIdPrefixed == {"senaite", "senaitex"}

getId(o) == IF o = Portal THEN PortalId ELSE IdTable[o]

OK == 200

Objects(par) == DOMAIN par

\* an object the uid catalog does not know
UnknownUid == Cardinality(InitialObjects) + MaxNew + 1

\* objects on which the current user lacks the workflow permission
Restricted == {Setup}

\* api.is_portal
is_root(o) == o = Portal

\* api.get_parent: aq_parent, the portal being its own parent here
get_parent(par, o) == IF is_root(o) THEN Portal ELSE par[o]

\* api.get_object_by_uid(uid, default=None)
get_object_by_uid(par, uid) ==
    IF uid = None THEN None
    ELSE IF uid = 0 THEN Portal
    ELSE IF uid \in Objects(par) THEN uid
    ELSE None

\* the child of o with the given id, or None
Child(par, o, seg) ==
    LET cs == {c \in Objects(par) : c # Portal /\ par[c] = o /\ getId(c) = seg}
    IN  IF cs = {} THEN None ELSE CHOOSE c \in cs : TRUE

RECURSIVE restrictedTraverse(_, _, _)
\* portal.restrictedTraverse(path): None stands for KeyError/AttributeError
restrictedTraverse(par, o, segs) ==
    IF segs = << >> THEN o
    ELSE LET c == Child(par, o, Head(segs))
         IN  IF c = None THEN None ELSE restrictedTraverse(par, c, Tail(segs))

RECURSIVE get_path(_, _)
\* api.get_path: the physical path as its list of segments
get_path(par, o) ==
    IF o = Portal THEN <<"", PortalId>>
    ELSE Append(get_path(par, par[o]), getId(o))

\* path.startswith(portal_path) on the strings
StartsWithPortalPath(path) ==
    /\ Len(path) >= 2
    /\ path[1] = ""
    /\ path[2] \in PortalIdPrefixed

get_object_by_path(par, path) ==
    IF path = <<"", PortalId>> THEN [st |-> OK, obj |-> Portal]
    ELSE LET rel == IF StartsWithPortalPath(path)
                    THEN SubSeq(path, 3, Len(path))
                    ELSE path
             o == IF rel # << >> /\ rel[1] = ""
                  THEN None   \* an absolute path outside of the portal
                  ELSE restrictedTraverse(par, Portal, rel)
         IN  IF o = None THEN [st |-> 404, obj |-> None]
             ELSE [st |-> OK, obj |-> o]

\* a record without any key
IsEmptyRecord(r) ==
    /\ r.uid = None /\ r.path = NoPath /\ r.parent_path = NoPath
    /\ r.id = NoStr /\ r.parent_uid = None /\ r.portal_type = NoStr
    /\ r.title = NoStr /\ r.transition = NoStr

\* a get_object_by_record that looks at the path before the uid
get_object_by_record_path_first(par, r) ==
    IF IsEmptyRecord(r) THEN [st |-> OK, obj |-> None, via |-> "none"]
    ELSE IF r.path # NoPath
         THEN get_object_by_path(par, r.path) @@ [via |-> "path"]
    ELSE IF r.uid # None
         THEN [st |-> OK, obj |-> get_object_by_uid(par, r.uid), via |-> "uid"]
    ELSE IF r.parent_path # NoPath /\ r.id # NoStr
         THEN get_object_by_path(par, Append(r.parent_path, r.id))
                @@ [via |-> "parent_path"]
    ELSE [st |-> OK, obj |-> None, via |-> "none"]

\* via names the lookup that was made: "uid", "path", "parent_path" (the
\* path joined from parent_path and id) or "none"
get_object_by_record(par, r) ==
    IF IsEmptyRecord(r) THEN [st |-> OK, obj |-> None, via |-> "none"]
    ELSE IF r.uid # None
         THEN [st |-> OK, obj |-> get_object_by_uid(par, r.uid), via |-> "uid"]
    ELSE IF r.path # NoPath
         THEN get_object_by_path(par, r.path) @@ [via |-> "path"]
    ELSE IF r.parent_path # NoPath /\ r.id # NoStr
         THEN get_object_by_path(par, Append(r.parent_path, r.id))
                @@ [via |-> "parent_path"]
    ELSE [st |-> OK, obj |-> None, via |-> "none"]

\* api.do_transition_for on the world w (the four state functions): exc
\* is "Unauthorized" when the user may not do it and "Error" when the
\* transition is not available in the current state of the object
do_transition_for(w, o, t) ==
    IF o \in Restricted THEN [exc |-> "Unauthorized", w |-> w]
    ELSE IF t = "deactivate" /\ w.review[o] = "active"
         THEN [exc |-> "", w |-> [w EXCEPT !.review[o] = "inactive"]]
    ELSE IF t = "activate" /\ w.review[o] = "inactive"
         THEN [exc |-> "", w |-> [w EXCEPT !.review[o] = "active"]]
    ELSE [exc |-> "Error", w |-> w]

(* --------------------------- resource names --------------------------- *)

\* The name of a portal type or of a resource is the list of its
\* characters.

Chars == {"A", "a", " "}

\* str.lower on one character
LowerChar(c) == IF c = "A" THEN "a" ELSE c

\* str.lower
lower(str) == [i \in 1..Len(str) |-> LowerChar(str[i])]

IsNotSpace(c) == c # " "

\* str.replace(" ", "")
RemoveSpaces(str) == SelectSeq(str, IsNotSpace)

portal_type_to_resource(portal_type) == RemoveSpaces(lower(portal_type))

\* the index of the last key of the list that is equal to key, 0 if none
LastIndex(keys, key) ==
    LET is == {i \in 1..Len(keys) : keys[i] = key}
    IN  IF is = {} THEN 0 ELSE CHOOSE i \in is : \A j \in is : j <= i

\* a get_resource_mapping whose keys keep the spaces of the names
get_resource_mapping_spaced(portal_types) ==
    [resources |-> [i \in 1..Len(portal_types) |-> lower(portal_types[i])],
     portal_types |-> portal_types]

\* dict(zip(resources, portal_types)), kept as the two lists: the value of
\* a key is the portal type at the last index of the key
get_resource_mapping(portal_types) ==
    [resources |-> [i \in 1..Len(portal_types) |->
                        portal_type_to_resource(portal_types[i])],
     portal_types |-> portal_types]

\* resource_mapping.get(key): << >> stands for None, <<pt>> for pt
MappingGet(mapping, key) ==
    IF LastIndex(mapping.resources, key) = 0 THEN << >>
    ELSE <<mapping.portal_types[LastIndex(mapping.resources, key)]>>

\* the resource is never None here
resource_to_portal_type(portal_types, resource) ==
    MappingGet(get_resource_mapping(portal_types), lower(resource))

(* ------------------------ host configuration -------------------------- *)

World(par, pt, rv, ti) == [parent |-> par, ptype |-> pt, review |-> rv, title |-> ti]

\* container.getTypeInfo().filter_content_types
filter_content_types(t) == t \in {"ClientFolder", "Client", "LabContacts", "AnalysisRequest"}

\* container.getTypeInfo().allowed_content_types
allowed_content_types(t) ==
    CASE t = "ClientFolder" -> {"Client"}
      [] t = "Client" -> {"Contact", "AnalysisRequest"}
      [] t = "LabContacts" -> {"Contact"}
      [] OTHER -> {}

\* queryAdapter(container, ICreate, name=portal_type): "none" when no adapter
\* is registered, "deny" when its is_creation_allowed() is false, "allow"
\* when it allows and does not delegate, "delegate" when it creates itself
CreateAdapter(ct, pt) ==
    CASE ct = "LabContacts" /\ pt = "Contact" -> "delegate"
      [] ct = "Client" /\ pt = "Contact" -> "allow"
      [] ct = "Contact" /\ pt = "Contact" -> "deny"
      [] OTHER -> "none"

\* queryAdapter(obj, IUpdate): "none", or what its is_update_allowed() says
UpdateAdapter(t) ==
    CASE t = "Contact" -> "allow"
      [] t = "AnalysisRequest" -> "deny"
      [] OTHER -> "none"

\* container types in which the user has no permission to add content
AddDenied == {"ClientFolder"}

\* portal types of containers
Folderish == {"Plone Site", "Setup", "ClientFolder", "Client", "LabContacts"}

\* the host's next free object
NewObject(w) == Cardinality(DOMAIN w.parent)

AddObject(w, c, pt, ti) ==
    LET o == NewObject(w)
        f(g, v) == [x \in DOMAIN g \cup {o} |-> IF x = o THEN v ELSE g[x]]
    IN  World(f(w.parent, c), f(w.ptype, pt), f(w.review, "active"), f(w.title, ti))

\* container._delObject(obj.id)
delObject(w, o) ==
    LET f(g) == [x \in DOMAIN g \ {o} |-> g[x]]
    IN  World(f(w.parent), f(w.ptype), f(w.review), f(w.title))

(* ------------------------- permission checks -------------------------- *)

\* an is_creation_allowed that lets content into the setup folder
is_creation_allowed_in_setup(w, portal_type, container) ==
    IF container = Portal THEN FALSE
    ELSE IF /\ filter_content_types(w.ptype[container])
            /\ portal_type \notin allowed_content_types(w.ptype[container])
         THEN FALSE
    ELSE IF CreateAdapter(w.ptype[container], portal_type) # "none"
         THEN CreateAdapter(w.ptype[container], portal_type) # "deny"
    ELSE TRUE

\* an is_creation_allowed that lets content into the portal root
is_creation_allowed_in_portal(w, portal_type, container) ==
    IF container = Setup THEN FALSE
    ELSE IF /\ filter_content_types(w.ptype[container])
            /\ portal_type \notin allowed_content_types(w.ptype[container])
         THEN FALSE
    ELSE IF CreateAdapter(w.ptype[container], portal_type) # "none"
         THEN CreateAdapter(w.ptype[container], portal_type) # "deny"
    ELSE TRUE

is_creation_allowed(w, portal_type, container) ==
    IF container = Portal THEN FALSE
    ELSE IF container = Setup THEN FALSE
    ELSE IF /\ filter_content_types(w.ptype[container])
            /\ portal_type \notin allowed_content_types(w.ptype[container])
         THEN FALSE
    ELSE IF CreateAdapter(w.ptype[container], portal_type) # "none"
         THEN CreateAdapter(w.ptype[container], portal_type) # "deny"
    ELSE TRUE

\* an is_update_allowed that forgets the setup folder
is_update_allowed_in_setup(w, obj) ==
    IF is_root(obj) THEN FALSE
    ELSE IF is_root(get_parent(w.parent, obj)) THEN FALSE
    ELSE IF UpdateAdapter(w.ptype[obj]) # "none"
         THEN UpdateAdapter(w.ptype[obj]) = "allow"
    ELSE TRUE

is_update_allowed(w, obj) ==
    IF is_root(obj) THEN FALSE
    ELSE IF is_root(get_parent(w.parent, obj)) THEN FALSE
    ELSE IF get_parent(w.parent, obj) = Setup THEN FALSE
    ELSE IF UpdateAdapter(w.ptype[obj]) # "none"
         THEN UpdateAdapter(w.ptype[obj]) = "allow"
    ELSE TRUE

(* ------------------------------ update -------------------------------- *)

\* data values: dm.set raises Unauthorized on "secret" and ValueError on
\* "bad"; the validation of the object rejects "invalid"
update_object_with_data(w, content, record) ==
    LET set == IF record.title = NoStr THEN [st |-> OK, w |-> w]
               ELSE IF UpdateAdapter(w.ptype[content]) # "none"
               THEN [st |-> OK, w |-> [w EXCEPT !.title[content] = record.title]]
               ELSE IF record.title = "secret" THEN [st |-> 401, w |-> w]
               ELSE IF record.title = "bad" THEN [st |-> 400, w |-> w]
               ELSE [st |-> OK, w |-> [w EXCEPT !.title[content] = record.title]]
    IN  IF set.st # OK THEN set
        ELSE IF record.title = "invalid" THEN [st |-> 400, w |-> set.w]
        ELSE IF record.transition # NoStr
        THEN LET tr == do_transition_for(set.w, content, record.transition)
             IN  IF tr.exc # "" THEN [st |-> 500, w |-> tr.w]
                 ELSE [st |-> OK, w |-> tr.w]
        ELSE [st |-> OK, w |-> set.w]

RECURSIVE UpdateLoop(_, _, _)
\* update_items, the loop over the records
UpdateLoop(w, records, results) ==
    IF records = << >>
    THEN [st |-> IF results = << >> THEN 400 ELSE OK, w |-> w,
          objs |-> results, refused |-> None]
    ELSE LET record == Head(records)
             found == get_object_by_record(w.parent, record)
         IN  IF found.st # OK
             THEN [st |-> found.st, w |-> w, objs |-> results, refused |-> None]
             ELSE IF found.obj = None
             THEN UpdateLoop(w, Tail(records), results)
             ELSE IF ~is_update_allowed(w, found.obj)
             THEN [st |-> 401, w |-> w, objs |-> results, refused |-> found.obj]
             ELSE LET upd == update_object_with_data(w, found.obj, record)
                  IN  IF upd.st # OK
                      THEN [st |-> upd.st, w |-> upd.w,
                            objs |-> Append(results, found.obj), refused |-> None]
                      ELSE UpdateLoop(upd.w, Tail(records),
                                      Append(results, found.obj))

\* objs are the objects update_object_with_data was called on, refused the
\* object is_update_allowed turned down
update_items(w, uid, records) ==
    LET obj == get_object_by_uid(w.parent, uid)
    IN  IF obj # None
        THEN IF records = << >>   \* records[0] raises IndexError
             THEN [st |-> 500, w |-> w, objs |-> << >>, refused |-> None]
             ELSE IF ~is_update_allowed(w, obj)
             THEN [st |-> 401, w |-> w, objs |-> << >>, refused |-> obj]
             ELSE LET upd == update_object_with_data(w, obj, records[1])
                  IN  [st |-> upd.st, w |-> upd.w, objs |-> <<obj>>,
                       refused |-> None]
        ELSE UpdateLoop(w, records, << >>)

(* ------------------------------ delete -------------------------------- *)

RECURSIVE FindInRecords(_, _, _, _)
\* find_objects, the loop over the records of the request body; missing
\* tells that no object was found for one of the records, and no list is
\* returned when the lookup of a record raises
FindInRecords(par, records, objects, missing) ==
    IF records = << >> THEN [st |-> OK, objects |-> objects, missing |-> missing]
    ELSE LET res == get_object_by_record(par, Head(records))
         IN  IF res.st # OK
             THEN [st |-> res.st, objects |-> << >>, missing |-> TRUE]
             ELSE IF res.obj = None
             THEN FindInRecords(par, Tail(records), objects, TRUE)
             ELSE FindInRecords(par, Tail(records),
                                Append(objects, res.obj), missing)

\* form is the record of the request parameters (get_object_by_request)
find_objects(par, uid, form, records) ==
    LET byuid == get_object_by_uid(par, uid)
        byreq == IF byuid # None THEN [st |-> OK, obj |-> byuid]
                 ELSE get_object_by_record(par, form)
    IN  IF byreq.st # OK
        THEN [st |-> byreq.st, objects |-> << >>, missing |-> FALSE]
        ELSE IF byreq.obj # None
        THEN [st |-> OK, objects |-> <<byreq.obj>>, missing |-> FALSE]
        ELSE FindInRecords(par, records, << >>, FALSE)

\* a deactivate_object that deletes the object from its container
deactivate_object_deleting(w, o) ==
    IF is_root(o) THEN [st |-> 401, w |-> w]
    ELSE IF o \in Restricted THEN [st |-> 401, w |-> w]
    ELSE [st |-> OK, w |-> delObject(w, o)]

deactivate_object(w, o) ==
    IF is_root(o) THEN [st |-> 401, w |-> w]
    ELSE LET tr == do_transition_for(w, o, "deactivate")
         IN  [st |-> CASE tr.exc = "" -> OK
                       [] tr.exc = "Unauthorized" -> 401
                       [] OTHER -> 500,
              w |-> tr.w]

RECURSIVE DeactivateAll(_, _)
\* delete_items, the loop over the found objects
DeactivateAll(w, objects) ==
    IF objects = << >> THEN [st |-> OK, w |-> w]
    ELSE LET res == deactivate_object(w, Head(objects))
         IN  IF res.st # OK THEN res
             ELSE DeactivateAll(res.w, Tail(objects))

\* a delete_items without the guard on the portal object
delete_items_unguarded(w, uid, form, records) ==
    LET found == find_objects(w.parent, uid, form, records)
    IN  IF found.st # OK
        THEN [st |-> found.st, w |-> w, found |-> found]
        ELSE LET res == DeactivateAll(w, found.objects)
             IN  IF res.st # OK
                 THEN [st |-> res.st, w |-> res.w, found |-> found]
                 ELSE IF found.objects = << >>
                 THEN [st |-> 404, w |-> w, found |-> found]
                 ELSE [st |-> OK, w |-> res.w, found |-> found]

delete_items(w, uid, form, records) ==
    LET found == find_objects(w.parent, uid, form, records)
    IN  IF found.st # OK
        THEN [st |-> found.st, w |-> w, found |-> found]
        ELSE IF \E i \in 1..Len(found.objects) : is_root(found.objects[i])
        THEN [st |-> 400, w |-> w, found |-> found]
        ELSE LET res == DeactivateAll(w, found.objects)
             IN  IF res.st # OK
                 THEN [st |-> res.st, w |-> res.w, found |-> found]
                 ELSE IF found.objects = << >>
                 THEN [st |-> 404, w |-> w, found |-> found]
                 ELSE [st |-> OK, w |-> res.w, found |-> found]

(* ------------------------------ create -------------------------------- *)

\* a find_target_container that returns None when it finds no target
find_target_container_none(par, record) ==
    IF record.parent_uid # None
    THEN [st |-> OK, obj |-> get_object_by_uid(par, record.parent_uid)]
    ELSE IF record.parent_path # NoPath
    THEN get_object_by_path(par, record.parent_path)
    ELSE [st |-> OK, obj |-> None]

find_target_container(par, record) ==
    LET target == IF record.parent_uid # None
                  THEN [st |-> OK, obj |-> get_object_by_uid(par, record.parent_uid)]
                  ELSE IF record.parent_path # NoPath
                  THEN get_object_by_path(par, record.parent_path)
                  ELSE [st |-> OK, obj |-> None]
    IN  IF target.st # OK THEN target
        ELSE IF target.obj = None THEN [st |-> 404, obj |-> None]
        ELSE target

\* the value the host gives to a field the data do not set
DefaultTitle == "a"

TitleOf(data) == IF data.title = NoStr THEN DefaultTitle ELSE data.title

\* a create_object that leaves the object in place when its update fails
create_object_keeping(w, container, portal_type, data) ==
    IF CreateAdapter(w.ptype[container], portal_type) = "delegate"
    THEN [st |-> OK, w |-> AddObject(w, container, portal_type, TitleOf(data)),
          obj |-> NewObject(w), at |-> "return"]
    ELSE IF portal_type = "AnalysisRequest"
    THEN IF w.ptype[container] \notin Folderish
         THEN [st |-> 500, w |-> w, obj |-> None, at |-> "create"]
         ELSE [st |-> OK, w |-> AddObject(w, container, portal_type, TitleOf(data)),
               obj |-> NewObject(w), at |-> "return"]
    ELSE IF w.ptype[container] \in AddDenied
    THEN [st |-> 401, w |-> w, obj |-> None, at |-> "create"]
    ELSE IF w.ptype[container] \notin Folderish
    THEN [st |-> 500, w |-> w, obj |-> None, at |-> "create"]
    ELSE LET obj == NewObject(w)
             upd == update_object_with_data(
                        AddObject(w, container, portal_type, DefaultTitle), obj, data)
         IN  IF upd.st # OK
             THEN [st |-> upd.st, w |-> upd.w, obj |-> None, at |-> "update"]
             ELSE [st |-> OK, w |-> upd.w, obj |-> obj, at |-> "return"]

\* at tells where create_object ended: "create" in the creation of the
\* object, "update" in update_object_with_data, "return" at a return
create_object(w, container, portal_type, data) ==
    IF CreateAdapter(w.ptype[container], portal_type) = "delegate"
    THEN [st |-> OK, w |-> AddObject(w, container, portal_type, TitleOf(data)),
          obj |-> NewObject(w), at |-> "return"]
    ELSE IF portal_type = "AnalysisRequest"
    THEN IF w.ptype[container] \notin Folderish
         THEN [st |-> 500, w |-> w, obj |-> None, at |-> "create"]
         ELSE [st |-> OK, w |-> AddObject(w, container, portal_type, TitleOf(data)),
               obj |-> NewObject(w), at |-> "return"]
    ELSE IF w.ptype[container] \in AddDenied
    THEN [st |-> 401, w |-> w, obj |-> None, at |-> "create"]
    ELSE IF w.ptype[container] \notin Folderish
    THEN [st |-> 500, w |-> w, obj |-> None, at |-> "create"]
    ELSE LET obj == NewObject(w)
             upd == update_object_with_data(
                        AddObject(w, container, portal_type, DefaultTitle), obj, data)
         IN  IF upd.st \in {400, 401, 404}
             THEN [st |-> upd.st, w |-> delObject(upd.w, obj), obj |-> None,
                   at |-> "update"]
             ELSE IF upd.st # OK
             THEN [st |-> upd.st, w |-> upd.w, obj |-> None, at |-> "update"]
             ELSE [st |-> OK, w |-> upd.w, obj |-> obj, at |-> "return"]

\* the folder a record names by its own parent_uid, or else parent_path
OwnTarget(par, record) ==
    IF record.parent_uid # None THEN get_object_by_uid(par, record.parent_uid)
    ELSE IF record.parent_path # NoPath
    THEN get_object_by_path(par, record.parent_path).obj
    ELSE None

CreateResult(st, w, pt, c, objs, own, processed, calls) ==
    [st |-> st, w |-> w, portal_type |-> pt, container |-> c, objs |-> objs,
     own |-> own, processed |-> processed, calls |-> calls]

RECURSIVE CreateLoop(_, _, _, _, _, _, _, _)
\* create_items, the loop over the records: portal_type and container are
\* the local variables of create_items, objs the results, own the folder
\* each created record names itself, processed the number of records the
\* loop has entered and calls the number of calls of create_object
CreateLoop(w, portal_type, container, records, objs, own, processed, calls) ==
    IF records = << >>
    THEN CreateResult(IF objs = << >> THEN 400 ELSE OK, w, portal_type,
                      container, objs, own, processed, calls)
    ELSE LET record == Head(records)
             pt == IF portal_type = NoStr THEN record.portal_type ELSE portal_type
             ft == IF container = None
                   THEN find_target_container(w.parent, record)
                   ELSE [st |-> OK, obj |-> container]
             c == ft.obj
         IN  IF ft.st # OK
             THEN CreateResult(ft.st, w, pt, None, objs, own, processed + 1, calls)
             ELSE IF c = None \/ pt = NoStr
             THEN CreateResult(400, w, pt, c, objs, own, processed + 1, calls)
             ELSE IF ~is_creation_allowed(w, pt, c)
             THEN CreateResult(401, w, pt, c, objs, own, processed + 1, calls)
             ELSE LET co == create_object(w, c, pt, record)
                  IN  IF co.st # OK
                      THEN CreateResult(co.st, co.w, pt, c, objs, own,
                                        processed + 1, calls + 1)
                      ELSE CreateLoop(co.w, pt, c, Tail(records),
                                      Append(objs, co.obj),
                                      Append(own, OwnTarget(w.parent, record)),
                                      processed + 1, calls + 1)

\* a create_items that looks for the container in the records first
create_items_by_record(w, portal_type, uid, records) ==
    IF records # << >> /\ OwnTarget(w.parent, Head(records)) # None
    THEN CreateLoop(w, portal_type, None, records, << >>, << >>, 0, 0)
    ELSE CreateLoop(w, portal_type,
                    IF uid # None THEN get_object_by_uid(w.parent, uid) ELSE None,
                    records, << >>, << >>, 0, 0)

create_items(w, portal_type, uid, records) ==
    LET container == IF uid # None THEN get_object_by_uid(w.parent, uid) ELSE None
    IN  CreateLoop(w, portal_type, container, records, << >>, << >>, 0, 0)

(* ----------------------------- requests ------------------------------- *)

NoRecord == [uid |-> None, path |-> NoPath, parent_path |-> NoPath,
             id |-> NoStr, parent_uid |-> None, portal_type |-> NoStr,
             title |-> NoStr, transition |-> NoStr]

\* a record naming an object and carrying data
Rec(uid, path, parent_path, id, ti, tr) ==
    [NoRecord EXCEPT !.uid = uid, !.path = path, !.parent_path = parent_path,
                     !.id = id, !.title = ti, !.transition = tr]

\* a record naming the folder and the type of the object to create
NewRec(parent_uid, parent_path, portal_type, ti) ==
    [NoRecord EXCEPT !.parent_uid = parent_uid, !.parent_path = parent_path,
                     !.portal_type = portal_type, !.title = ti]

SeqsUpTo(S, n) == UNION {[1..k -> S] : k \in 0..n}

\* the uid of the route
UidInputs == {None, UnknownUid, Portal, Client1}

\* records of the body of a delete request
DeleteRecords ==
    { Rec(Portal, NoPath, NoPath, NoStr, NoStr, NoStr),
      Rec(Client1, NoPath, NoPath, NoStr, NoStr, NoStr),
      Rec(UnknownUid, NoPath, NoPath, NoStr, NoStr, NoStr),
      Rec(None, <<"", "senaite", "nowhere">>, NoPath, NoStr, NoStr, NoStr),
      Rec(None, NoPath, <<"", "senaite", "setup">>, "labcontacts", NoStr, NoStr) }

\* the request parameters of a delete request
DeleteForms == {NoRecord, Rec(Clients, NoPath, NoPath, NoStr, NoStr, NoStr)}

\* records of the body of an update request
UpdateRecords ==
    { Rec(Client1, NoPath, NoPath, NoStr, "b", NoStr),
      Rec(Contact1, NoPath, NoPath, NoStr, "invalid", NoStr),
      Rec(None, <<"", "senaite", "clients">>, NoPath, NoStr, "b", NoStr),
      Rec(None, NoPath, <<"", "senaite", "setup">>, "labcontacts", "b", NoStr),
      Rec(Portal, NoPath, NoPath, NoStr, "b", NoStr),
      Rec(UnknownUid, NoPath, NoPath, NoStr, "b", NoStr) }

\* records of the body of a create request
CreateRecords ==
    { NewRec(Client1, NoPath, "Contact", NoStr),
      NewRec(LabContacts, NoPath, "Contact", NoStr),
      NewRec(None, <<"", "senaite", "setup">>, NoStr, NoStr),
      NewRec(None, NoPath, "Contact", "invalid") }

\* the uid of the route of a create request
CreateUidInputs == {None, Portal, Client1}

\* the portal type of the route
PortalTypeInputs == {NoStr, "AnalysisRequest"}

Data(ti, tr) == [NoRecord EXCEPT !.title = ti, !.transition = tr]

\* the data create_object is called with
DataRecords ==
    { Data(NoStr, NoStr), Data("b", NoStr), Data("bad", NoStr),
      Data("secret", NoStr), Data("invalid", NoStr),
      Data(NoStr, "activate"), Data("b", "deactivate") }

\* the containers create_object is called with
ContainerInputs == {Clients, Client1, LabContacts, Contact1}

\* the records get_object_by_record is called with
LookupRecords ==
    { [NoRecord EXCEPT !.uid = uid, !.path = path, !.parent_path = pp,
                       !.id = id, !.title = ti] :
        uid \in {None, Client1, UnknownUid},
        path \in {NoPath, <<"", "senaite">>, <<"", "senaite", "clients">>,
                  <<"", "senaite", "nowhere">>},
        pp \in {NoPath, <<"", "senaite", "setup">>,
                <<"", "senaite", "clients", "client-1">>},
        id \in {NoStr, "labcontacts", "contact-1"},
        ti \in {NoStr, "b"} }

(* ------------------------------ state --------------------------------- *)

NoCall == [op |-> "none", status |-> OK, uid |-> None, container |-> None,
           portal_type |-> NoStr, objs |-> << >>, own |-> << >>,
           missing |-> FALSE, refused |-> None, processed |-> 0,
           calls |-> 0, at |-> "", record |-> NoRecord, via |-> "",
           name |-> << >>, resource |-> << >>, back |-> << >>]

\* the names of at most n characters
Names(n) == UNION {[1..k -> Chars] : k \in 1..n}

\* the lists the portal types tool may hold: distinct names in any order
TypeLists ==
    {l \in UNION {[1..k -> Names(MaxNameLen)] : k \in 1..MaxTypes} :
        \A i, j \in 1..Len(l) : i # j => l[i] # l[j]}

\* the portal types tool of the specifications of the handlers
DefaultTypes == << <<"A", " ", "a">> >>

InitTree ==
    /\ parent = [o \in InitialObjects |->
                    CASE o = Portal -> Portal
                      [] o = Setup -> Portal
                      [] o = Clients -> Portal
                      [] o = Client1 -> Clients
                      [] o = LabContacts -> Setup
                      [] o = Contact1 -> Client1]
    /\ ptype = [o \in InitialObjects |->
                    CASE o = Portal -> "Plone Site"
                      [] o = Setup -> "Setup"
                      [] o = Clients -> "ClientFolder"
                      [] o = Client1 -> "Client"
                      [] o = LabContacts -> "LabContacts"
                      [] o = Contact1 -> "Contact"]
    /\ review = [o \in InitialObjects |-> "active"]
    /\ title = [o \in InitialObjects |-> DefaultTitle]
    /\ last = NoCall

Init == InitTree /\ types = DefaultTypes

\* any portal types tool
InitTypes == InitTree /\ types \in TypeLists

Now == World(parent, ptype, review, title)

Becomes(w) ==
    /\ parent' = w.parent
    /\ ptype' = w.ptype
    /\ review' = w.review
    /\ title' = w.title
    /\ types' = types

DeleteItems ==
    \E uid \in UidInputs, form \in DeleteForms,
       records \in SeqsUpTo(DeleteRecords, MaxRecords) :
        LET res == delete_items(Now, uid, form, records)
        IN  /\ Becomes(res.w)
            /\ last' = [NoCall EXCEPT !.op = "delete_items",
                                      !.status = res.st,
                                      !.uid = uid,
                                      !.objs = res.found.objects,
                                      !.missing = res.found.missing]

UpdateCall(op) ==
    \E uid \in UidInputs, records \in SeqsUpTo(UpdateRecords, MaxRecords) :
        LET res == update_items(Now, uid, records)
        IN  /\ Becomes(res.w)
            /\ last' = [NoCall EXCEPT !.op = op,
                                      !.status = res.st,
                                      !.uid = uid,
                                      !.objs = res.objs,
                                      !.refused = res.refused]

UpdateItems == UpdateCall("update_items")

PatchItems == UpdateCall("patch_items")

PutItems == UpdateCall("put_items")

\* the tree has room for the objects of w
HasRoom(w) == Cardinality(DOMAIN w.parent) <= Cardinality(InitialObjects) + MaxNew

CreateItems ==
    \E portal_type \in PortalTypeInputs, uid \in CreateUidInputs,
       records \in SeqsUpTo(CreateRecords, MaxRecords) :
        LET res == create_items(Now, portal_type, uid, records)
        IN  /\ HasRoom(res.w)
            /\ Becomes(res.w)
            /\ last' = [NoCall EXCEPT !.op = "create_items",
                                      !.status = res.st,
                                      !.uid = uid,
                                      !.container = res.container,
                                      !.portal_type = res.portal_type,
                                      !.objs = res.objs,
                                      !.own = res.own,
                                      !.processed = res.processed,
                                      !.calls = res.calls]

CreateObject ==
    \E container \in ContainerInputs, portal_type \in {"Contact", "AnalysisRequest"},
       data \in DataRecords :
        LET res == create_object(Now, container, portal_type, data)
        IN  /\ HasRoom(res.w)
            /\ Becomes(res.w)
            /\ last' = [NoCall EXCEPT !.op = "create_object",
                                      !.status = res.st,
                                      !.container = container,
                                      !.portal_type = portal_type,
                                      !.objs = IF res.obj = None THEN << >>
                                               ELSE <<res.obj>>,
                                      !.at = res.at]

GetObjectByRecord ==
    \E record \in LookupRecords :
        LET res == get_object_by_record(parent, record)
        IN  /\ last' = [NoCall EXCEPT !.op = "get_object_by_record",
                                      !.status = res.st,
                                      !.objs = IF res.obj = None THEN << >>
                                               ELSE <<res.obj>>,
                                      !.record = record,
                                      !.via = res.via]
            /\ UNCHANGED <<parent, ptype, review, title, types>>

\* get_url_info names the resource of the portal type of an object, and
\* resource_to_portal_type maps the resource of a request to a portal type
ResourceToPortalType ==
    \E i \in 1..Len(types) :
        LET resource == portal_type_to_resource(types[i])
        IN  /\ last' = [NoCall EXCEPT !.op = "resource_to_portal_type",
                                      !.name = types[i],
                                      !.resource = resource,
                                      !.back = resource_to_portal_type(types, resource)]
            /\ UNCHANGED <<parent, ptype, review, title, types>>

NextResource == ResourceToPortalType

SpecResource == InitTypes /\ [][NextResource]_vars

NextLookup == GetObjectByRecord

SpecLookup == Init /\ [][NextLookup]_vars

NextUpdate == UpdateItems \/ PatchItems \/ PutItems

SpecUpdate == Init /\ [][NextUpdate]_vars

NextCreate == CreateItems

SpecCreate == Init /\ [][NextCreate]_vars

NextCreateObject == CreateObject

SpecCreateObject == Init /\ [][NextCreateObject]_vars

NextDelete == DeleteItems

SpecDelete == Init /\ [][NextDelete]_vars

(* ------------------------------ claims -------------------------------- *)

InSeq(x, s) == \E i \in 1..Len(s) : s[i] = x

\* C3: delete_items never deactivates the portal object; when the portal
\* is among the objects found for the request the call fails with status
\* 400 and deactivates no object at all.
C3_PortalNotDeleted ==
    [][ last'.op = "delete_items" =>
          /\ review'[Portal] = "active"
          /\ InSeq(Portal, last'.objs) =>
                (last'.status = 400 /\ review' = review) ]_vars

\* a delete request that found the portal and another, active object
C3_Witness ==
    /\ last.op = "delete_items"
    /\ last.status = 400
    /\ InSeq(Portal, last.objs)
    /\ \E i \in 1..Len(last.objs) :
          last.objs[i] # Portal /\ review[last.objs[i]] = "active"

\* C4: delete_items deactivates only; the objects of the tree and their
\* containers, types and data are the same after the call, and the only
\* change is the step from active to inactive of objects found.
C4_DeactivatesOnly ==
    [][ last'.op = "delete_items" =>
          /\ parent' = parent
          /\ ptype' = ptype
          /\ title' = title
          /\ DOMAIN review' = DOMAIN review
          /\ \A o \in DOMAIN review :
                review'[o] # review[o] =>
                  /\ review[o] = "active"
                  /\ review'[o] = "inactive"
                  /\ InSeq(o, last'.objs) ]_vars

\* a delete request that has deactivated two objects
C4_Witness ==
    /\ last.op = "delete_items"
    /\ last.status = OK
    /\ Len(last.objs) >= 2
    /\ \A i \in 1..Len(last.objs) : review[last.objs[i]] = "inactive"
    /\ DOMAIN parent = InitialObjects

\* C5: delete_items without a uid is transaction-like; when no object can
\* be found for one of the records of the body, the call deactivates
\* nothing.
C5_DeleteAllOrNothing ==
    [][ (last'.op = "delete_items" /\ last'.uid = None /\ last'.missing)
          => review' = review ]_vars

(* ------------------------- claims on update --------------------------- *)

UpdateOps == {"update_items", "patch_items", "put_items"}

\* the portal, the objects of the portal root and those of the setup folder
Protected(par) ==
    {o \in DOMAIN par : o = Portal \/ par[o] = Portal \/ par[o] = Setup}

\* C2: update_items, put_items and patch_items leave the portal, every
\* object of the portal root and every object of the setup folder
\* unmodified; update_object_with_data is not called on such an object and
\* the call that names one fails with status 401.
C2_ProtectedNotUpdated ==
    [][ last'.op \in UpdateOps =>
          /\ parent' = parent
          /\ \A o \in Protected(parent) :
                title'[o] = title[o] /\ review'[o] = review[o]
          /\ \A i \in 1..Len(last'.objs) : last'.objs[i] \notin Protected(parent)
          /\ last'.refused \in Protected(parent) => last'.status = 401 ]_vars

\* an update request whose second record names an object of the setup
\* folder, after the first record has been applied
C2_Witness ==
    /\ last.op \in UpdateOps
    /\ last.status = 401
    /\ last.refused # None
    /\ parent[last.refused] = Setup
    /\ Len(last.objs) >= 1
    /\ title[last.objs[1]] = "b"

(* ------------------------- claims on create --------------------------- *)

Created == DOMAIN parent' \ DOMAIN parent

Unchanged == parent' = parent /\ ptype' = ptype /\ review' = review /\ title' = title

\* C1 as it is stated: every record whose container is the portal root or
\* the setup folder fails with status 401.
C1_Original ==
    [][ last'.op = "create_items" =>
          /\ last'.calls > 0 =>
                is_creation_allowed(Now, last'.portal_type, last'.container)
          /\ \A o \in Created : parent'[o] \notin {Portal, Setup}
          /\ (last'.processed > 0 /\ last'.container \in {Portal, Setup}) =>
                (last'.status = 401 /\ Unchanged) ]_vars

\* C1: create_items calls create_object only for a portal type and a
\* container for which is_creation_allowed is true; no object is ever
\* created directly inside the portal root or the setup folder, and a
\* record whose container is one of them fails without creating anything,
\* with status 401 when a portal type is known and 400 when none is.
C1_CreationAllowedOnly ==
    [][ last'.op = "create_items" =>
          /\ last'.calls > 0 =>
                is_creation_allowed(Now, last'.portal_type, last'.container)
          /\ \A o \in Created : parent'[o] \notin {Portal, Setup}
          /\ (last'.processed > 0 /\ last'.container \in {Portal, Setup}) =>
                /\ last'.status = IF last'.portal_type = NoStr THEN 400 ELSE 401
                /\ Unchanged ]_vars

\* a create request for the setup folder is turned down with status 401 in
\* a tree to which earlier requests have added objects
C1_Witness ==
    /\ last.op = "create_items"
    /\ last.container = Setup
    /\ last.status = 401
    /\ last.calls = 0
    /\ DOMAIN parent # InitialObjects

\* C6: when create_items is called with a uid that resolves to an object,
\* every object the call creates is inside that object, whatever folder
\* its record names, and a call that succeeds has created one object for
\* each record.
C6_CreatedInUidObject ==
    [][ (last'.op = "create_items" /\ get_object_by_uid(parent, last'.uid) # None) =>
          /\ last'.container = get_object_by_uid(parent, last'.uid)
          /\ \A o \in Created : parent'[o] = get_object_by_uid(parent, last'.uid)
          /\ last'.status = OK =>
                /\ Len(last'.objs) = last'.processed
                /\ Created = {last'.objs[i] : i \in 1..Len(last'.objs)} ]_vars

\* a create request with the uid of a client has created, inside the
\* client, the object of a record that names another folder
C6_Witness ==
    /\ last.op = "create_items"
    /\ last.uid = Client1
    /\ last.status = OK
    /\ \E i \in 1..Len(last.objs) :
          last.own[i] = LabContacts /\ parent[last.objs[i]] = Client1

\* C7 as it is stated: with uid 0 the content of the payload is created in
\* the portal.
C7_Original ==
    (last.op = "create_items" /\ last.uid = Portal /\ last.processed > 0) =>
        /\ last.container = Portal
        /\ last.status = OK
        /\ \A i \in 1..Len(last.objs) : parent[last.objs[i]] = Portal

\* C7: with uid 0 the target folder is the portal, and nothing is created
\* in it; the first record fails with status 401, or 400 when no portal
\* type is known, and the tree stays as it was.
C7_PortalRefused ==
    [][ (last'.op = "create_items" /\ last'.uid = Portal /\ last'.processed > 0) =>
          /\ last'.container = Portal
          /\ last'.processed = 1
          /\ last'.status = IF last'.portal_type = NoStr THEN 400 ELSE 401
          /\ Unchanged ]_vars

\* a create request with uid 0 and a portal type is turned down
C7_Witness ==
    /\ last.op = "create_items"
    /\ last.uid = Portal
    /\ last.container = Portal
    /\ last.portal_type = "Contact"
    /\ last.status = 401

\* C8: without a uid, the object of every record is created in the folder
\* the record itself names by its parent_uid, or else by its parent_path.
C8_CreatedInOwnFolder ==
    (last.op = "create_items" /\ last.uid = None) =>
        \A i \in 1..Len(last.objs) : parent[last.objs[i]] = last.own[i]

\* C9 as it is stated: a record without a container or without a portal
\* type fails with status 400.
C9_Original ==
    (/\ last.op = "create_items"
     /\ last.processed > 0
     /\ (last.container = None \/ last.portal_type = NoStr)) =>
        (last.status = 400 /\ last.calls = last.processed - 1)

\* C9: a record for which create_items has no container, or no portal
\* type, fails and no object is created for it; the status is 404 when the
\* container is missing and 400 when only the portal type is.
C9_MissingContainerOrType ==
    [][ (/\ last'.op = "create_items"
         /\ last'.processed > 0
         /\ (last'.container = None \/ last'.portal_type = NoStr)) =>
          /\ last'.status = IF last'.container = None THEN 404 ELSE 400
          /\ last'.calls = last'.processed - 1
          /\ Len(last'.objs) = last'.processed - 1
          /\ Created = {last'.objs[i] : i \in 1..Len(last'.objs)} ]_vars

\* a create request whose record names a portal type and no folder
C9_Witness ==
    /\ last.op = "create_items"
    /\ last.processed = 1
    /\ last.container = None
    /\ last.portal_type = "Contact"
    /\ last.status = 404

\* C10: on the standard path of create_object, when the update of the new
\* object fails with an APIError the error is raised again and the object
\* is deleted, so that the tree is the same as before the call.
C10_CreateRolledBack ==
    [][ (last'.op = "create_object" /\ last'.at = "update") =>
          /\ last'.status # OK
          /\ last'.status \in {400, 401, 404} => Unchanged ]_vars

\* a call of create_object in a client whose data are not valid
C10_Witness ==
    /\ last.op = "create_object"
    /\ last.at = "update"
    /\ last.status = 400
    /\ last.container = Client1
    /\ last.portal_type = "Contact"

(* ------------------------- claims on lookup --------------------------- *)

\* what a lookup by path gives: the status and the objects found
ByPath(path) ==
    LET res == get_object_by_path(parent, path)
    IN  <<res.st, IF res.obj = None THEN << >> ELSE <<res.obj>>>>

\* what a lookup by uid gives
ByUid(uid) ==
    <<OK, IF get_object_by_uid(parent, uid) = None THEN << >>
          ELSE <<get_object_by_uid(parent, uid)>>>>

\* C11: get_object_by_record resolves a record with a fixed precedence: a
\* uid wins over a path, a path wins over parent_path and id, and a record
\* with none of them, or an empty record, gives None without any lookup.
C11_LookupPrecedence ==
    last.op = "get_object_by_record" =>
        LET r == last.record
            got == <<last.status, last.objs>>
        IN  IF r.uid # None
            THEN last.via = "uid" /\ got = ByUid(r.uid)
            ELSE IF r.path # NoPath
            THEN last.via = "path" /\ got = ByPath(r.path)
            ELSE IF r.parent_path # NoPath /\ r.id # NoStr
            THEN last.via = "parent_path"
                 /\ got = ByPath(Append(r.parent_path, r.id))
            ELSE last.via = "none" /\ got = <<OK, << >>>>

\* a record with a uid, a path and a parent_path with an id that name three
\* different objects is resolved by its uid
C11_Witness ==
    /\ last.op = "get_object_by_record"
    /\ last.record.uid = Client1
    /\ last.record.path = <<"", "senaite", "clients">>
    /\ last.record.parent_path = <<"", "senaite", "setup">>
    /\ last.record.id = "labcontacts"
    /\ last.objs = <<Client1>>

(* --------------------- claims on resource names ----------------------- *)

\* the registered portal types with the resource name of the portal type
SameResource(name) ==
    {j \in 1..Len(types) :
        portal_type_to_resource(types[j]) = portal_type_to_resource(name)}

\* C12 as it is stated: the resource of every registered portal type maps
\* back to the portal type.
C12_Original ==
    last.op = "resource_to_portal_type" => last.back = <<last.name>>

\* C12: the resource of a registered portal type maps back to the last
\* registered portal type that has this resource name, which is the portal
\* type itself when no other registered type has the same name up to case
\* and spaces.
C12_RoundTrip ==
    last.op = "resource_to_portal_type" =>
        /\ \A i \in 1..Len(last.resource) : last.resource[i] \notin {"A", " "}
        /\ \E j \in SameResource(last.name) :
              /\ \A k \in SameResource(last.name) : k <= j
              /\ last.back = <<types[j]>>
        /\ Cardinality(SameResource(last.name)) = 1 => last.back = <<last.name>>

\* a portal type with a capital and a space in its name, registered next
\* to another one, is found again by its resource name
C12_Witness ==
    /\ last.op = "resource_to_portal_type"
    /\ last.name = <<"A", " ">>
    /\ last.resource = <<"a">>
    /\ last.back = <<last.name>>
    /\ Len(types) = 2

====
